---- MODULE Spec2Model ----
(***************************************************************************)
(* Model of collaborative_filtering.py: the user-item rating matrix, the   *)
(* neighbourhood recommender (find_similarity,                             *)
(* find_nearest_neighbour_ratings, find_top_n_recommendations), the SGD    *)
(* matrix factorization (perform_matrix_factorization) and the latent      *)
(* factor part of the main block.                                          *)
(*                                                                         *)
(* Numbers.  The program computes in float64.  The model computes in       *)
(* fixed point: a neighbourhood quantity x is held as the integer          *)
(* x * Scale, a factorization quantity as x * FScale, and every division   *)
(* rounds down.  A missing value (numpy's NaN) is the value NaN, which     *)
(* every arithmetic operator propagates and every comparison rejects, as   *)
(* IEEE arithmetic does.  A rating r of the matrix is held as the integer   *)
(* 4 * r (quarter points), so 0 is the rating 0.0 and 1 the rating 0.25.   *)
(***************************************************************************)
EXTENDS Integers, Sequences, FiniteSets, TLC

\* ---------------------------------------------------------------- bounds
NumUsers == 2
NumItems == 3
MaxRating == 3
MaxK == 3
MaxN == 3
MaxSteps == 2
MaxMFRating == 1
NumFactors == 1
Scale == 12
FScale == 10000

\* ------------------------------------------------------ program constants
\* find_top_n_recommendations uses the 10 nearest neighbours
DefaultK == 10
\* gamma = 0.001 is 1 / GammaInv
GammaInv == 1000
\* lamda = 0.02 is LamdaPct / 100
LamdaPct == 2
\* the objective threshold 0.001 is 1 / ThresholdInv
ThresholdInv == 1000

NaN == -1000000

RatingVals == 0..MaxRating

VARIABLES
    user_item_rating_matrix, \* R[u][i]: a rating, or NaN
    movies_data,             \* the movieID column of movies.csv, in file order
    call,                    \* the neighbourhood call made: [op, a, b]
    similarity,              \* what find_similarity returned
    nearest_neighbours,      \* rows [userID, Similarity] kept as neighbours
    predicted_ratings,       \* rows [movieID, Rating]
    top_recommendations,     \* rows [movieID, Rating] after sort and [:n]
    recommendations,         \* the returned list (titles, held as movieIDs)
    pc,                      \* position in perform_matrix_factorization / main
    steps, lamda,            \* its parameters
    P, Q,                    \* the factor matrices
    step, pos,               \* epoch number and (i, j) of the update loop
    visited,                 \* cells updated in the current epoch, in order
    summed,                  \* cells summed in the last objective, in order
    e_log                    \* the objective e of each completed epoch

vars == <<user_item_rating_matrix, movies_data, call, similarity,
          nearest_neighbours, predicted_ratings, top_recommendations,
          recommendations, pc, steps, lamda, P, Q, step, pos, visited,
          summed, e_log>>

\* the matrix's index (userIDs) and columns (movieIDs)
Users == DOMAIN user_item_rating_matrix
Items == DOMAIN user_item_rating_matrix[1]

knnVars == <<call, similarity, nearest_neighbours, predicted_ratings,
             top_recommendations, recommendations>>
mfVars == <<pc, steps, lamda, P, Q, step, pos, visited, summed, e_log>>

\* ------------------------------------------------------- float arithmetic
Min(a, b) == IF a < b THEN a ELSE b

\* x > 0 on a float: False for NaN
Gt0(x) == x # NaN /\ x > 0

FAdd(a, b) == IF a = NaN \/ b = NaN THEN NaN ELSE a + b
FSub(a, b) == IF a = NaN \/ b = NaN THEN NaN ELSE a - b
\* product of two Scale-d values
FMul(a, b) == IF a = NaN \/ b = NaN THEN NaN ELSE (a * b) \div Scale

RECURSIVE SumSeq(_)
SumSeq(s) == IF s = <<>> THEN 0 ELSE Head(s) + SumSeq(Tail(s))

RECURSIVE ISqrtSearch(_, _, _)
ISqrtSearch(x, lo, hi) ==
    IF lo >= hi THEN lo
    ELSE LET mid == (lo + hi + 1) \div 2
         IN  IF mid * mid <= x THEN ISqrtSearch(x, mid, hi)
                               ELSE ISqrtSearch(x, lo, mid - 1)

ISqrt(x) == ISqrtSearch(x, 0, Min(x, 46340))

Indices(n) == [i \in 1..n |-> i]

\* np.nanmean(row), Scale-d: the mean of the entries that are not NaN
NanMean(row) ==
    LET known == {i \in DOMAIN row : row[i] # NaN}
    IN  IF known = {} THEN NaN
        ELSE (SumSeq([i \in DOMAIN row |-> IF i \in known THEN row[i] ELSE 0])
                 * Scale) \div Cardinality(known)

\* np.array(row) - np.nanmean(row), Scale-d
Centered(row) ==
    LET mean == NanMean(row)
    IN  [i \in DOMAIN row |->
            FSub(IF row[i] = NaN THEN NaN ELSE row[i] * Scale, mean)]

\* ------------------------------------------------------- find_similarity
\* [i for i in range(len(user_1)) if user_1[i] > 0 and user_2[i] > 0]
CommonMovieIDs(c1, c2) ==
    SelectSeq(Indices(Len(c1)), LAMBDA i : Gt0(c1[i]) /\ Gt0(c2[i]))

\* common_movieIDs == 0: a list compared with the integer 0
CommonIsZero(common) == FALSE

\* scipy.spatial.distance.correlation(u, v) = 1 - uv / sqrt(uu * vv) with
\* uv, uu, vv the means of the products of the vectors less their means.
\* U and V are the vectors less their means, times n; the quotient is the
\* same, and it is rounded once.  An empty vector has the mean NaN, and a
\* vector of equal entries gives 0 / 0.
Correlation(u, v) ==
    LET n == Len(u)
        U == [i \in 1..n |-> n * u[i] - SumSeq(u)]
        V == [i \in 1..n |-> n * v[i] - SumSeq(v)]
        uv == SumSeq([i \in 1..n |-> U[i] * V[i]])
        uu == SumSeq([i \in 1..n |-> U[i] * U[i]])
        vv == SumSeq([i \in 1..n |-> V[i] * V[i]])
    IN  IF n = 0 \/ uu * vv = 0 THEN NaN
        ELSE LET q == ISqrt(((uv * Scale) * (uv * Scale)) \div (uu * vv))
             IN  IF uv >= 0 THEN Scale - q ELSE Scale + q

find_similarity(user_1, user_2) ==
    LET c1 == Centered(user_1)
        c2 == Centered(user_2)
        common_movieIDs == CommonMovieIDs(c1, c2)
    IN  IF CommonIsZero(common_movieIDs) THEN 0
        ELSE Correlation([x \in 1..Len(common_movieIDs) |-> c1[common_movieIDs[x]]],
                         [x \in 1..Len(common_movieIDs) |-> c2[common_movieIDs[x]]])

\* ------------------------------------------------------------ sort_values
\* whether key a is placed before key b in a descending sort, NaN last
\* (na_position='last')
PlacedBefore(a, b) == a # NaN /\ (b = NaN \/ a > b)

\* pd.DataFrame.sort_values(frame, [col], ascending=[0]) as a row order: p[x]
\* is the row placed x-th.  Rows with equal keys (and the NaN rows) keep
\* their order: pandas reverses the keys around numpy's argsort, whose
\* kind='quicksort' is an insertion sort below 17 elements.
SortValuesDesc(keys) ==
    LET n == Len(keys)
        rank == [x \in 1..n |->
                    Cardinality({y \in 1..n :
                        \/ PlacedBefore(keys[y], keys[x])
                        \/ (~PlacedBefore(keys[x], keys[y]) /\ y < x)})]
    IN  [r \in 1..n |-> CHOOSE x \in 1..n : rank[x] = r - 1]

\* frame[:k], k >= 0
Slice(s, k) == SubSeq(s, 1, Min(k, Len(s)))

\* ---------------------------------------- find_nearest_neighbour_ratings
\* the similarity table before the sort: one row per user, in index order
SimilarityRows(active_user) ==
    [i \in 1..Len(user_item_rating_matrix) |->
        [userID |-> i,
         Similarity |-> find_similarity(user_item_rating_matrix[active_user],
                                        user_item_rating_matrix[i])]]

Column(rows, col) == [x \in 1..Len(rows) |-> rows[x][col]]

Reorder(rows, p) == [x \in 1..Len(rows) |-> rows[p[x]]]

\* user_item_rating_matrix.loc[j, i] > 0: "the neighbour has rated that movie"
NeighbourRated(j, i) == Gt0(user_item_rating_matrix[j][i])

\* (rating of j for i - nanmean of j) * similarity of j, Scale-d
NeighbourTerm(row, i) ==
    FMul(user_item_rating_matrix[row.userID][i] * Scale
            - NanMean(user_item_rating_matrix[row.userID]),
         row.Similarity)

RECURSIVE AddTerms(_, _, _)
AddTerms(acc, nn, i) ==
    IF nn = <<>> THEN acc
    ELSE AddTerms(IF NeighbourRated(Head(nn).userID, i)
                  THEN FAdd(acc, NeighbourTerm(Head(nn), i))
                  ELSE acc,
                  Tail(nn), i)

\* the value stored for item i, Scale-d
PredictedRating(active_user, nn, i) ==
    AddTerms(NanMean(user_item_rating_matrix[active_user]), nn, i)

\* a table with rows only for the movies some neighbour has rated
PredictedTableOfRatedMovies(active_user, nn) ==
    SelectSeq([i \in 1..Len(user_item_rating_matrix[1]) |->
                  [movieID |-> i, Rating |-> PredictedRating(active_user, nn, i)]],
              LAMBDA r : \E x \in DOMAIN nn : NeighbourRated(nn[x].userID, r.movieID))

\* the predicted_ratings frame: index = the matrix's columns, one .loc
\* assignment per column
PredictedTable(active_user, nn) ==
    [i \in 1..Len(user_item_rating_matrix[1]) |->
        [movieID |-> i, Rating |-> PredictedRating(active_user, nn, i)]]

\* similarity_matrix[:k] of the sorted table
NearestNeighbours(active_user, k) ==
    LET rows == SimilarityRows(active_user)
    IN  Slice(Reorder(rows, SortValuesDesc(Column(rows, "Similarity"))), k)

find_nearest_neighbour_ratings(active_user, k) ==
    PredictedTable(active_user, NearestNeighbours(active_user, k))

\* ------------------------------------------ find_top_n_recommendations
\* the active user's movies with rating > 0
WatchedMovies(active_user) ==
    {i \in Items : Gt0(user_item_rating_matrix[active_user][i])}

\* predicted_ratings.drop(watched_movies)
Drop(rows, labels) == SelectSeq(rows, LAMBDA r : r.movieID \notin labels)

\* movies_data.loc[movies_data.movieID.isin(top.index)]: movies_data's order
TitlesOf(top) ==
    SelectSeq(movies_data,
              LAMBDA m : \E x \in 1..Len(top) : top[x].movieID = m)

\* sort_values(predicted_ratings.drop(watched_movies), ['Rating'])[:n]
TopRecommendations(predicted, active_user, n) ==
    LET remaining == Drop(predicted, WatchedMovies(active_user))
    IN  Slice(Reorder(remaining, SortValuesDesc(Column(remaining, "Rating"))), n)

find_top_n_recommendations(active_user, n) ==
    TitlesOf(TopRecommendations(
                find_nearest_neighbour_ratings(active_user, DefaultK),
                active_user, n))

\* --------------------------------------------------------------- actions
NoCall == [op |-> "none", a |-> 0, b |-> 0]

FindSimilarity(u1, u2) ==
    /\ call' = [op |-> "find_similarity", a |-> u1, b |-> u2]
    /\ similarity' = find_similarity(user_item_rating_matrix[u1],
                                     user_item_rating_matrix[u2])
    /\ UNCHANGED <<user_item_rating_matrix, movies_data, nearest_neighbours,
                   predicted_ratings, top_recommendations, recommendations>>
    /\ UNCHANGED mfVars

FindNearestNeighbourRatings(active_user, k) ==
    /\ call' = [op |-> "find_nearest_neighbour_ratings", a |-> active_user, b |-> k]
    /\ \E nn \in {NearestNeighbours(active_user, k)} :
          /\ nearest_neighbours' = nn
          /\ predicted_ratings' = PredictedTable(active_user, nn)
    /\ UNCHANGED <<user_item_rating_matrix, movies_data, similarity,
                   top_recommendations, recommendations>>
    /\ UNCHANGED mfVars

FindTopNRecommendations(active_user, n) ==
    /\ call' = [op |-> "find_top_n_recommendations", a |-> active_user, b |-> n]
    /\ \E nn \in {NearestNeighbours(active_user, DefaultK)} :
       \E predicted \in {PredictedTable(active_user, nn)} :
       \E top \in {TopRecommendations(predicted, active_user, n)} :
          /\ nearest_neighbours' = nn
          /\ predicted_ratings' = predicted
          /\ top_recommendations' = top
          /\ recommendations' = TitlesOf(top)
    /\ UNCHANGED <<user_item_rating_matrix, movies_data, similarity>>
    /\ UNCHANGED mfVars

\* pd.pivot_table: a user or a movie is in the matrix only with a rating
IsPivotTable(R) ==
    /\ \A u \in DOMAIN R : \E i \in DOMAIN R[u] : R[u][i] # NaN
    /\ \A i \in DOMAIN R[1] : \E u \in DOMAIN R : R[u][i] # NaN

\* the matrices of nu users and ni movies with ratings in vals
Matrices(nu, ni, vals) ==
    {R \in [1..nu -> [1..ni -> vals \cup {NaN}]] : IsPivotTable(R)}

\* the state before any call, with rating matrix R
Loaded(R) ==
    /\ user_item_rating_matrix = R
    /\ movies_data = Indices(Len(R[1]))
    /\ call = NoCall
    /\ similarity = NaN
    /\ nearest_neighbours = <<>>
    /\ predicted_ratings = <<>>
    /\ top_recommendations = <<>>
    /\ recommendations = <<>>

MFIdle ==
    /\ pc = "idle"
    /\ steps = 0
    /\ lamda = 0
    /\ P = <<>>
    /\ Q = <<>>
    /\ step = 0
    /\ pos = <<0, 0>>
    /\ visited = <<>>
    /\ summed = <<>>
    /\ e_log = <<>>

InitKNN ==
    /\ \E R \in Matrices(NumUsers, NumItems, RatingVals) : Loaded(R)
    /\ MFIdle

\* every user has rated every movie, and there is one more movie
InitDense ==
    /\ \E R \in [1..NumUsers -> [1..(NumItems + 1) -> RatingVals]] : Loaded(R)
    /\ MFIdle

NextKNN ==
    /\ call.op = "none"
    /\ \/ \E u1 \in Users : \E u2 \in Users : FindSimilarity(u1, u2)
       \/ \E active_user \in Users : \E k \in 0..MaxK :
             FindNearestNeighbourRatings(active_user, k)
       \/ \E active_user \in Users : \E n \in 0..MaxN :
             FindTopNRecommendations(active_user, n)

SpecKNN == InitKNN /\ [][NextKNN]_vars

NextDense ==
    /\ call.op = "none"
    /\ \E active_user \in Users : \E n \in 0..MaxN :
          FindTopNRecommendations(active_user, n)

SpecDense == InitDense /\ [][NextDense]_vars

\* ------------------------------------------------- neighbourhood claims
Called(op) == call.op = op

ActiveRow == user_item_rating_matrix[call.a]

\* the prediction the last call computed for movie m
PredictedFor(m) ==
    (CHOOSE r \in {predicted_ratings[x] : x \in DOMAIN predicted_ratings} :
        r.movieID = m).Rating

\* C1: find_top_n_recommendations(u, n) returns no item for which u has a
\* rating in the rating matrix, whatever the value of that rating.
C1_NoRatedItemRecommended ==
    Called("find_top_n_recommendations") =>
        \A x \in 1..Len(recommendations) : ActiveRow[recommendations[x]] = NaN

\* the neighbours' correlations are all 1 or -1 (or undefined): the values
\* the fixed-point arithmetic holds without rounding
ExactSimilarities ==
    \A x \in DOMAIN nearest_neighbours :
        nearest_neighbours[x].Similarity \in {NaN, 0, 2 * Scale}

\* C2: the list find_top_n_recommendations returns is in descending order of
\* predicted rating: an item never precedes one with a higher prediction.
\* Stated for the calls whose predictions are computed without rounding, so
\* that an inversion here is an inversion of the program's floats.
C2_RecommendationsDescending ==
    (Called("find_top_n_recommendations") /\ ExactSimilarities) =>
        \A x, y \in 1..Len(recommendations) :
            (/\ x < y
             /\ PredictedFor(recommendations[x]) # NaN
             /\ PredictedFor(recommendations[y]) # NaN)
            => PredictedFor(recommendations[x]) >= PredictedFor(recommendations[y])

\* C4: find_similarity returns exactly 0 (a number, not NaN) whenever the
\* co-rated index set of the two users is empty.
C4_EmptyCommonGivesZero ==
    (/\ Called("find_similarity")
     /\ CommonMovieIDs(Centered(ActiveRow),
                       Centered(user_item_rating_matrix[call.b])) = <<>>)
    => similarity = 0

\* C5: find_similarity of a user with itself, and of two users with identical
\* rating vectors, is one fixed constant, the scorer's most-similar value
\* (correlation distance 0).
C5_IdenticalUsersMostSimilar ==
    (/\ Called("find_similarity")
     /\ ActiveRow = user_item_rating_matrix[call.b])
    => similarity = 0

\* C6: for every active user and every k >= 0, also k above the number of
\* users, find_nearest_neighbour_ratings returns a table with exactly one
\* row for each item of the matrix, none missing and none twice, and the
\* neighbour set is the first min(k, number of users) rows of the table.
C6_OnePredictionPerItem ==
    Called("find_nearest_neighbour_ratings") =>
        /\ Len(predicted_ratings) = Cardinality(Items)
        /\ \A i \in Items :
              Cardinality({x \in DOMAIN predicted_ratings :
                              predicted_ratings[x].movieID = i}) = 1
        /\ Len(nearest_neighbours) = Min(call.b, Cardinality(Users))
        /\ \A x, y \in DOMAIN nearest_neighbours :
              /\ nearest_neighbours[x].userID \in Users
              /\ (x # y => nearest_neighbours[x].userID # nearest_neighbours[y].userID)

\* C6's case: k above the number of users, every user a neighbour, a table
\* of NumItems rows
C6_Witness ==
    /\ Called("find_nearest_neighbour_ratings")
    /\ call.b > Cardinality(Users)
    /\ Len(nearest_neighbours) = Cardinality(Users)
    /\ Len(predicted_ratings) = Cardinality(Items)

\* a user's similarity to the active user of the last call
SimilarityOf(u) == find_similarity(ActiveRow, user_item_rating_matrix[u])

\* a is strictly more similar than b: a smaller correlation distance, that
\* is a more positive correlation on the co-rated items
MoreSimilar(a, b) == a # NaN /\ b # NaN /\ a < b

\* C8: the k rows kept as nearest neighbours are the k users most similar
\* to the active user: no user left out is strictly more similar (more
\* positively correlated) than a user kept.
C8_NeighboursAreMostSimilar ==
    Called("find_nearest_neighbour_ratings") =>
        \A x \in DOMAIN nearest_neighbours : \A u \in Users :
            (\A y \in DOMAIN nearest_neighbours : nearest_neighbours[y].userID # u)
            => ~MoreSimilar(SimilarityOf(u), nearest_neighbours[x].Similarity)

\* the sum C9 states: every selected neighbour that has a rating for i adds
\* its term, whatever the rating's value
RECURSIVE AddKnownTerms(_, _, _)
AddKnownTerms(acc, nn, i) ==
    IF nn = <<>> THEN acc
    ELSE AddKnownTerms(IF user_item_rating_matrix[Head(nn).userID][i] # NaN
                       THEN FAdd(acc, NeighbourTerm(Head(nn), i))
                       ELSE acc,
                       Tail(nn), i)

\* C9: the value stored for item i is mean(active user's known ratings) plus
\* the sum, over exactly the selected neighbours j that have a rating for i,
\* of similarity(j) * (rating(j, i) - mean(j's known ratings)).  Stated for
\* the calls whose neighbours all have a defined similarity.
C9_PredictionSumsRatedNeighbours ==
    (/\ Called("find_nearest_neighbour_ratings")
     /\ \A y \in DOMAIN nearest_neighbours : nearest_neighbours[y].Similarity # NaN)
    =>  \A x \in DOMAIN predicted_ratings :
            predicted_ratings[x].Rating =
                AddKnownTerms(NanMean(ActiveRow), nearest_neighbours,
                              predicted_ratings[x].movieID)

\* ---------------------------------------- perform_matrix_factorization
\* a rating of the matrix (quarter points) as an FScale-d number
RatingUnit == FScale \div 4

\* a sample of np.random.rand's values in [0, 1): 0.0 and 0.5
InitVals == {0, FScale \div 2}

\* np.dot of two FScale-d vectors
Dot(p, q) == SumSeq([f \in 1..Len(p) |-> p[f] * q[f]]) \div FScale

\* pow(np.linalg.norm(p), 2), in FScale * FScale units
Norm2(p) == SumSeq([f \in 1..Len(p) |-> p[f] * p[f]])

\* R.loc[i, j] > 0: "each rating that exists in the training set"
RatingExists(i, j) == Gt0(user_item_rating_matrix[i][j])

\* R.loc[i, j] - np.dot(P.loc[i], Q.loc[j])
Error(Pm, Qm, i, j) ==
    user_item_rating_matrix[i][j] * RatingUnit - Dot(Pm[i], Qm[j])

\* v + gamma * (eij * w - lamda * v): the step of lines 320 and 321
GradientStep(v, w, eij, lam) ==
    [f \in 1..Len(v) |->
        v[f] + (((eij * w[f]) \div FScale) - ((lam * v[f]) \div 100)) \div GammaInv]

\* the cells of R in the order of the two nested loops
CellsRowMajor ==
    LET n == Len(user_item_rating_matrix)
        m == Len(user_item_rating_matrix[1])
    IN  [x \in 1..(n * m) |-> <<((x - 1) \div m) + 1, ((x - 1) % m) + 1>>]

\* the cells the loops of lines 328-339 add to e
SummedCells == SelectSeq(CellsRowMajor, LAMBDA c : RatingExists(c[1], c[2]))

\* one cell's part of e, in FScale * FScale units
CellObjective(Pm, Qm, i, j, lam) ==
    Error(Pm, Qm, i, j) * Error(Pm, Qm, i, j)
        + (lam * (Norm2(Pm[i]) + Norm2(Qm[j]))) \div 100

\* e after an epoch
Objective(Pm, Qm, lam) ==
    SumSeq([x \in 1..Len(SummedCells) |->
               CellObjective(Pm, Qm, SummedCells[x][1], SummedCells[x][2], lam)])

\* e < 0.001
Converged(e) == e < (FScale * FScale) \div ThresholdInv

\* for step in range(steps)
ForStep ==
    /\ pc = "for"
    /\ IF step < steps
       THEN /\ pc' = "sgd"
            /\ pos' = <<1, 1>>
            /\ visited' = <<>>
       ELSE /\ pc' = "done"
            /\ UNCHANGED <<pos, visited>>
    /\ UNCHANGED <<user_item_rating_matrix, movies_data, steps, lamda, P, Q,
                   step, summed, e_log>>
    /\ UNCHANGED knnVars

\* one iteration of the loops of lines 302-321, at cell pos
SGDUpdate ==
    /\ pc = "sgd"
    /\ LET i == pos[1]
           j == pos[2]
           m == Len(user_item_rating_matrix[1])
           n == Len(user_item_rating_matrix)
       IN  /\ IF RatingExists(i, j)
              THEN \E eij \in {Error(P, Q, i, j)} :
                   \E Pi \in {GradientStep(P[i], Q[j], eij, lamda)} :
                      /\ P' = [P EXCEPT ![i] = Pi]
                      /\ Q' = [Q EXCEPT ![j] = GradientStep(Q[j], Pi, eij, lamda)]
                      /\ visited' = Append(visited, <<i, j>>)
              ELSE UNCHANGED <<P, Q, visited>>
           /\ IF j < m THEN pos' = <<i, j + 1>> /\ pc' = "sgd"
              ELSE IF i < n THEN pos' = <<i + 1, 1>> /\ pc' = "sgd"
              ELSE pos' = pos /\ pc' = "objective"
    /\ UNCHANGED <<user_item_rating_matrix, movies_data, steps, lamda, step,
                   summed, e_log>>
    /\ UNCHANGED knnVars

\* lines 327-342: e, then break or the next epoch
EndOfEpoch ==
    /\ pc = "objective"
    /\ \E e \in {Objective(P, Q, lamda)} :
          /\ e_log' = Append(e_log, e)
          /\ IF Converged(e)
             THEN pc' = "done" /\ step' = step
             ELSE pc' = "for" /\ step' = step + 1
    /\ summed' = SummedCells
    /\ UNCHANGED <<user_item_rating_matrix, movies_data, steps, lamda, P, Q,
                   pos, visited>>
    /\ UNCHANGED knnVars

\* ------------------------------------- main block, latent factor technique
\* np.dot(P.loc[active_user], Q.T) with index Q.index
LatentPredictedRatings(active_user) ==
    [j \in 1..Len(Q) |-> [movieID |-> j, Rating |-> Dot(P[active_user], Q[j])]]

\* sort_values(predicted_ratings, ['Rating'], ascending=[0])[:limit]
LatentTopRecommendations(predicted, limit) ==
    Slice(Reorder(predicted, SortValuesDesc(Column(predicted, "Rating"))), limit)

LatentFactorRecommend(active_user, limit) ==
    /\ pc = "done"
    /\ pc' = "main_done"
    /\ call' = [op |-> "latent_factor", a |-> active_user, b |-> limit]
    /\ \E predicted \in {LatentPredictedRatings(active_user)} :
       \E top \in {LatentTopRecommendations(predicted, limit)} :
          /\ predicted_ratings' = predicted
          /\ top_recommendations' = top
          /\ recommendations' = TitlesOf(top)
    /\ UNCHANGED <<user_item_rating_matrix, movies_data, similarity,
                   nearest_neighbours, steps, lamda, P, Q, step, pos, visited,
                   summed, e_log>>

InitMF ==
    /\ \E R \in Matrices(NumUsers, NumItems, 0..MaxMFRating) : Loaded(R)
    /\ pc = "for"
    /\ steps \in 0..MaxSteps
    /\ lamda \in {0, LamdaPct}
    /\ \E pv \in InitVals :
          P = [u \in 1..NumUsers |-> [f \in 1..NumFactors |-> pv]]
    /\ \E qv \in InitVals :
          Q = [i \in 1..NumItems |-> [f \in 1..NumFactors |-> qv]]
    /\ step = 0
    /\ pos = <<0, 0>>
    /\ visited = <<>>
    /\ summed = <<>>
    /\ e_log = <<>>

NextMF ==
    \/ ForStep
    \/ SGDUpdate
    \/ EndOfEpoch
    \/ \E active_user \in Users : \E limit \in 0..MaxN :
          LatentFactorRecommend(active_user, limit)

SpecMF == InitMF /\ [][NextMF]_vars

\* ------------------------------------------------- factorization claims
\* the cells of R that hold a rating, whatever its value, row-major
RatedCells ==
    SelectSeq(CellsRowMajor,
              LAMBDA c : user_item_rating_matrix[c[1]][c[2]] # NaN)

\* the objective C7 states: the sum over the known ratings
KnownObjective ==
    SumSeq([x \in 1..Len(RatedCells) |->
               CellObjective(P, Q, RatedCells[x][1], RatedCells[x][2], lamda)])

\* the 0.001 of the claims, in FScale * FScale units
Threshold == (FScale * FScale) \div ThresholdInv

\* C3: the factor-based recommendation list of the main block contains no
\* item the active user has already rated.
C3_LatentListHasNoRatedItem ==
    (Called("latent_factor") /\ Len(e_log) >= 1) =>
        \A x \in 1..Len(recommendations) : ActiveRow[recommendations[x]] = NaN

\* C7: the factorization runs at most steps epochs, goes on to another epoch
\* only when the total objective over the known ratings is not below 0.001,
\* and returns before steps epochs only right after an epoch whose total
\* objective over the known ratings is below 0.001.
C7_StopsAtFirstEpochBelowThreshold ==
    /\ Len(e_log) <= steps
    /\ (pc = "for" /\ Len(e_log) >= 1) => KnownObjective >= Threshold
    /\ (pc \in {"done", "main_done"} /\ Len(e_log) < steps) =>
          (Len(e_log) >= 1 /\ KnownObjective < Threshold)

\* C10: in each epoch the update is applied exactly once for every cell of R
\* that holds a rating (whatever its value, 0 included), never for a cell
\* with no rating, in row-major order, and the objective sums the same cells.
C10_EveryRatedCellUpdatedInOrder ==
    /\ pc = "objective" => visited = RatedCells
    /\ Len(e_log) >= 1 => summed = RatedCells

====
